---- MODULE Spec2Model ----
(***************************************************************************)
(* Model of aero_surrogate/windows/scripts/generate_blade_step.py:         *)
(* sec*.dat discovery, section loading, loop closing, lofting, validation  *)
(* and STEP export.  Strings are sequences of one-character strings; the   *)
(* CAD kernel and the file system are the environment, and every outcome   *)
(* they can report is a nondeterministic choice.                           *)
(***************************************************************************)
EXTENDS Integers, Sequences, FiniteSets, TLC

VARIABLES
    case_dir,    \* CASE_DIR handed to build_blade_solid_from_case
    case_label,  \* CASE_LABEL
    dir,         \* names of the files present in the case directory
    files,       \* STEP files on disk: path -> content
    pc,          \* position of the script
    err,         \* exception that ended the run, or None
    all_secs,    \* line 56
    sec_paths,   \* lines 59-63
    sec_file,    \* what the path read in the current iteration led to (lines 77-79)
    cur,         \* x, y, z of the section loaded in the current iteration
    loft,        \* the BRepOffsetAPI_ThruSections object
    analysis,    \* analyzer.IsValid() and props.Mass(), lines 88-95
    shape,       \* value returned by build_blade_solid_from_case
    console,     \* lines printed
    exports,     \* number of export_step calls started
    writer,      \* shapes transferred into the STEPControl_Writer of the call
    table,       \* input of load_section_points (SpecLoad)
    lres,        \* its outcome
    wx, wy, wz,  \* inputs of bspline_wire_from_xyz (SpecWire)
    wres         \* the point sequence handed to the curve fit

pipeVars == <<case_dir, case_label, dir, files, pc, err, all_secs,
              sec_paths, sec_file, cur, loft, analysis, shape, console, exports, writer>>
loadVars == <<table, lres>>
wireVars == <<wx, wy, wz, wres>>
vars == <<pipeVars, loadVars, wireVars>>

None == "None"

(***************************** bounds ***************************************)
MaxFiles == 3      \* files in the case directory
MaxPts == 3        \* points of a section handed to bspline_wire_from_xyz
MaxCoord == 1      \* coordinates 0..MaxCoord, in units of tol
MaxRows == 3       \* rows of a section file
MaxCols == 4       \* columns of a section file

\* tol=1e-6, the unit of the coordinate grid
Tol == 1

Coords == 0..MaxCoord

(***************************** characters ***********************************)
DecimalChars == <<"0", "1", "2", "3", "4", "5", "6", "7", "8", "9">>

\* U+00B2 SUPERSCRIPT TWO: a character str.isdigit() accepts and int() rejects
SuperTwo == "sup2"

IsDecimal(ch) == \E i \in 1..10 : DecimalChars[i] = ch

\* str.isdigit
isdigit(ch) == IsDecimal(ch) \/ ch = SuperTwo

DigitValue(ch) == (CHOOSE i \in 1..10 : DecimalChars[i] = ch) - 1

RECURSIVE DecimalValue(_)
DecimalValue(s) ==
    IF s = <<>> THEN 0
    ELSE 10 * DecimalValue(SubSeq(s, 1, Len(s) - 1)) + DigitValue(s[Len(s)])

ValueError == "ValueError"

\* int(str): the decimal value; ValueError for "" and for a non-decimal character
int(s) ==
    IF s = <<>> \/ \E i \in 1..Len(s) : ~IsDecimal(s[i])
    THEN [ok |-> FALSE, err |-> ValueError]
    ELSE [ok |-> TRUE, val |-> DecimalValue(s)]

(***************************** paths ****************************************)
Sep == "\\"

IsSep(ch) == ch \in {"\\", "/"}

UpperChars ==
    <<"A", "B", "C", "D", "E", "F", "G", "H", "I", "J", "K", "L", "M",
      "N", "O", "P", "Q", "R", "S", "T", "U", "V", "W", "X", "Y", "Z">>

LowerChars ==
    <<"a", "b", "c", "d", "e", "f", "g", "h", "i", "j", "k", "l", "m",
      "n", "o", "p", "q", "r", "s", "t", "u", "v", "w", "x", "y", "z">>

UpperSet == {UpperChars[i] : i \in 1..Len(UpperChars)}

\* str.lower on the letters A..Z
LowerOf == [ch \in UpperSet |-> LowerChars[CHOOSE i \in 1..Len(UpperChars) : UpperChars[i] = ch]]

LowerChar(ch) == IF ch \in UpperSet THEN LowerOf[ch] ELSE ch

\* str.lower
lower(p) == [i \in 1..Len(p) |-> LowerChar(p[i])]

NormChar(ch) == IF ch = "/" THEN "\\" ELSE LowerChar(ch)

\* os.path.normcase of Windows: lower case, and "/" turned into "\"
normcase(p) == [i \in 1..Len(p) |-> NormChar(p[i])]

RECURSIVE FindSep(_, _)
\* the place of the first separator of p at or after place i, 0 when none
FindSep(p, i) ==
    IF i > Len(p) THEN 0 ELSE IF IsSep(p[i]) THEN i ELSE FindSep(p, i + 1)

\* \\?\UNC\ after normcase
UncPrefix == <<"\\", "\\", "?", "\\", "u", "n", "c", "\\">>

\* os.path.splitdrive: the drive is a letter and a colon, or the \\server\share
\* of a UNC path (the whole path when it has no share or nothing after it)
splitdrive(p) ==
    IF Len(p) >= 2 /\ IsSep(p[1]) /\ IsSep(p[2])
    THEN LET start == IF Len(p) >= 8 /\ normcase(SubSeq(p, 1, 8)) = UncPrefix
                      THEN 9 ELSE 3
             index == FindSep(p, start)
             index2 == IF index = 0 THEN 0 ELSE FindSep(p, index + 1)
         IN  IF index2 = 0 THEN [drive |-> p, path |-> <<>>]
             ELSE [drive |-> SubSeq(p, 1, index2 - 1),
                   path |-> SubSeq(p, index2, Len(p))]
    ELSE IF Len(p) >= 2 /\ p[2] = ":"
    THEN [drive |-> SubSeq(p, 1, 2), path |-> SubSeq(p, 3, Len(p))]
    ELSE [drive |-> <<>>, path |-> p]

RECURSIVE LastSepUpTo(_, _)
LastSepUpTo(p, i) ==
    IF i = 0 THEN 0 ELSE IF IsSep(p[i]) THEN i ELSE LastSepUpTo(p, i - 1)

\* the place of the last separator of a path, 0 when it has none
LastSep(p) == LastSepUpTo(p, Len(p))

RECURSIVE StripSeps(_)
\* str.rstrip of the separators
StripSeps(p) ==
    IF p # <<>> /\ IsSep(p[Len(p)]) THEN StripSeps(SubSeq(p, 1, Len(p) - 1)) ELSE p

\* os.path.split: the tail is what follows the last separator of the part after
\* the drive; the head keeps the drive, and loses its trailing separators
\* unless it consists of separators only
split(p) ==
    LET s == splitdrive(p)
        i == LastSep(s.path)
        head == SubSeq(s.path, 1, i)
    IN  [head |-> s.drive \o (IF StripSeps(head) = <<>> THEN head ELSE StripSeps(head)),
         tail |-> SubSeq(s.path, i + 1, Len(s.path))]

\* os.path.basename
basename(p) == split(p).tail

\* os.path.dirname
dirname(p) == split(p).head

\* os.path.join(a, b)
join(a, b) ==
    LET r == splitdrive(a)
        q == splitdrive(b)
        res == IF q.path # <<>> /\ IsSep(q.path[1])
               THEN [drive |-> IF q.drive # <<>> \/ r.drive = <<>> THEN q.drive ELSE r.drive,
                     path |-> q.path]
               ELSE IF q.drive # <<>> /\ lower(q.drive) # lower(r.drive)
               THEN [drive |-> q.drive, path |-> q.path]
               ELSE [drive |-> IF q.drive # <<>> THEN q.drive ELSE r.drive,
                     path |-> (IF r.path # <<>> /\ ~IsSep(r.path[Len(r.path)])
                               THEN r.path \o <<Sep>> ELSE r.path) \o q.path]
    IN  IF /\ res.path # <<>> /\ ~IsSep(res.path[1])
           /\ res.drive # <<>> /\ res.drive[Len(res.drive)] # ":"
        THEN res.drive \o <<Sep>> \o res.path
        ELSE res.drive \o res.path

SecPattern == <<"s", "e", "c", "*", ".", "d", "a", "t">>

\* the match of a name against a pattern with one "*", both as they are
MatchesExactly(name, pat) ==
    LET star == CHOOSE i \in 1..Len(pat) : pat[i] = "*"
        pre == SubSeq(pat, 1, star - 1)
        suf == SubSeq(pat, star + 1, Len(pat))
    IN  /\ Len(name) >= Len(pre) + Len(suf)
        /\ SubSeq(name, 1, Len(pre)) = pre
        /\ SubSeq(name, Len(name) - Len(suf) + 1, Len(name)) = suf

\* fnmatch.filter as glob calls it: pattern and name are matched after
\* os.path.normcase, so the match ignores case
fnmatch(name, pat) == MatchesExactly(normcase(name), normcase(pat))

\* glob._ishidden
ishidden(name) == name[1] = "."

Orderings(S) ==
    {s \in [1..Cardinality(S) -> S] : \A i, j \in 1..Cardinality(S) : i # j => s[i] # s[j]}

\* glob.glob(pattern) for a pattern whose last part is sec*.dat and whose
\* directory part names the directory as it is: the entries of the directory
\* that match, each joined to the head of os.path.split (a bare name when the
\* head is empty), in any order.  A pattern that os.path.split leaves without a
\* tail (a UNC path that names no share) names a directory, and no directory
\* has a "*" in its name.
glob(pattern, entries) ==
    LET s == split(pattern)
        names == {m \in entries : ~ishidden(m) /\ fnmatch(m, s.tail)}
    IN  IF s.tail = <<>> THEN {<<>>}
        ELSE Orderings({IF s.head = <<>> THEN n ELSE join(s.head, n) : n \in names})

(***************************** discovery ************************************)
HasDigit(p) == \E i \in 1..Len(basename(p)) : isdigit(basename(p)[i])

\* line 59: keep only the paths whose basename holds a digit
NumericOnly(secs) == SelectSeq(secs, HasDigit)

\* line 62: the sort key
SortKey(p) == int(SelectSeq(basename(p), isdigit))

RECURSIVE InsertByKey(_, _)
InsertByKey(s, p) ==
    IF s = <<>> THEN <<p>>
    ELSE IF SortKey(s[Len(s)]).val <= SortKey(p).val THEN Append(s, p)
    ELSE Append(InsertByKey(SubSeq(s, 1, Len(s) - 1), p), s[Len(s)])

RECURSIVE StableSort(_)
StableSort(s) ==
    IF s = <<>> THEN <<>>
    ELSE InsertByKey(StableSort(SubSeq(s, 1, Len(s) - 1)), s[Len(s)])

\* lines 60-63: sorted(sec_paths, key=...); every key is computed first
sorted(secs) ==
    IF \E i \in 1..Len(secs) : ~SortKey(secs[i]).ok
    THEN [ok |-> FALSE, err |-> ValueError]
    ELSE [ok |-> TRUE, val |-> StableSort(secs)]

(***************************** load_section_points **************************)
IndexError == "IndexError"

Column(rows, c) == [r \in 1..Len(rows) |-> rows[r][c]]

\* np.loadtxt(path) with ndmin=0: the axes of length one are squeezed
loadtxt(tbl) ==
    LET R == Len(tbl)
        C == IF R = 0 THEN 0 ELSE Len(tbl[1])
    IN  IF R = 0 THEN [ndim |-> 1, vals |-> <<>>]
        ELSE IF R = 1 /\ C = 1 THEN [ndim |-> 0, vals |-> tbl[1][1]]
        ELSE IF R = 1 THEN [ndim |-> 1, vals |-> tbl[1]]
        ELSE IF C = 1 THEN [ndim |-> 1, vals |-> Column(tbl, 1)]
        ELSE [ndim |-> 2, vals |-> tbl]

\* lines 20-21: a one-dimensional array becomes a one-row table
AtLeast2d(data) ==
    IF data.ndim = 1 THEN [ndim |-> 2, vals |-> <<data.vals>>] ELSE data

\* lines 19-24
load_section_points(tbl) ==
    LET data == AtLeast2d(loadtxt(tbl))
    IN  IF data.ndim < 2 THEN [ok |-> FALSE, err |-> IndexError]
        ELSE IF Len(data.vals[1]) < 3 THEN [ok |-> FALSE, err |-> ValueError]
        ELSE [ok |-> TRUE,
              x |-> Column(data.vals, 1),
              y |-> Column(data.vals, 2),
              z |-> Column(data.vals, 3)]

OSError == "OSError"

\* a file that holds a table of numbers
TableFile(tbl) == [kind |-> "table", rows |-> tbl]

\* a path np.loadtxt cannot open: a directory, or a file it may not read
Unreadable == [kind |-> "unreadable", rows |-> <<>>]

\* a file whose text is no table of numbers
NotNumeric == [kind |-> "text", rows |-> <<>>]

\* a path glob returned and that leads to no file: a dangling link, or a file
\* removed since line 56
Missing == [kind |-> "missing", rows |-> <<>>]

NoFile == [kind |-> "none", rows |-> <<>>]

\* line 77: load_section_points on what the path holds; np.loadtxt (line 19)
\* raises FileNotFoundError for a path that leads to no file, OSError for a
\* path it cannot open and ValueError for text it cannot convert, before line
\* 20 is reached
LoadFile(f) ==
    IF f.kind = "missing" THEN [ok |-> FALSE, err |-> "FileNotFoundError"]
    ELSE IF f.kind = "unreadable" THEN [ok |-> FALSE, err |-> OSError]
    ELSE IF f.kind = "text" THEN [ok |-> FALSE, err |-> ValueError]
    ELSE load_section_points(f.rows)

(***************************** bspline_wire_from_xyz ************************)
\* the comparison of line 37 with >= for >
GapReaches(x, y, z, tol) ==
    LET n == Len(x)
        dx == x[n] - x[1]
        dy == y[n] - y[1]
        dz == z[n] - z[1]
    IN  dx * dx + dy * dy + dz * dz >= tol * tol

\* line 37: the gap between the last and the first point exceeds tol
GapExceeds(x, y, z, tol) ==
    LET n == Len(x)
        dx == x[n] - x[1]
        dy == y[n] - y[1]
        dz == z[n] - z[1]
    IN  dx * dx + dy * dy + dz * dz > tol * tol

\* lines 29-45: the points handed to GeomAPI_PointsToBSpline
ClosedPoints(x, y, z, tol) ==
    IF Len(x) = 0 THEN [ok |-> FALSE, err |-> IndexError]
    ELSE IF GapExceeds(x, y, z, tol)
    THEN [ok |-> TRUE, x |-> Append(x, x[1]), y |-> Append(y, y[1]), z |-> Append(z, z[1])]
    ELSE [ok |-> TRUE, x |-> x, y |-> y, z |-> z]

(***************************** inputs ***************************************)
SecName(mid) == <<"s", "e", "c">> \o mid \o <<".", "d", "a", "t">>

\* the part of a file name that sec*.dat leaves open
SecMids ==
    { <<"1">>, <<"0", "1">>, <<"1", "x", "0">>, <<"x">>, <<SuperTwo>> }

\* files a case directory may hold: one in upper case, and one that does not
\* match sec*.dat
DirNames ==
    {SecName(m) : m \in SecMids}
        \cup { <<"S", "E", "C", "1", ".", "D", "A", "T">>,
               <<"s", "e", "c", "1", ".", "t", "x", "t">> }

\* the directories of at most MaxFiles files; the file system keeps no two
\* names that differ in case only
Directories ==
    {D \in SUBSET DirNames :
        /\ Cardinality(D) <= MaxFiles
        /\ \A m, n \in D : normcase(m) = normcase(n) => m = n}

\* case directories: relative, with a trailing separator of either kind, the
\* current directory of a drive, the root of a drive, the root of the current drive,
\* and a share
CaseDirs ==
    { <<"d", "7">>, <<"d", "7", "\\">>, <<"d", "7", "/">>, <<"C", ":">>,
      <<"C", ":", "\\">>, <<"\\">>, <<"\\", "\\", "s", "\\", "h">> }

CaseLabels == { <<"a">> }

\* a loop of three points, the last away from the first
OpenLoop == << <<0, 0, 0>>, <<2, 0, 0>>, <<0, 2, 0>> >>

\* the same loop with the first point repeated at the end
ClosedLoop == << <<0, 0, 0>>, <<2, 0, 0>>, <<0, 2, 0>>, <<0, 0, 0>> >>

\* a file of one column and three rows
OneColumn == << <<1>>, <<2>>, <<3>> >>

\* a file of one row: a single point
OneRow == << <<1, 2, 3>> >>

\* the open loop with a fourth column
FourColumns == << <<0, 0, 0, 7>>, <<2, 0, 0, 7>>, <<0, 2, 0, 7>> >>

\* tables a section file may hold: an open loop, a closed loop, one column,
\* one row, four columns, two columns, a single value, and nothing
SectionTables ==
    { OpenLoop, ClosedLoop, OneColumn, OneRow, FourColumns,
      << <<0, 0>>, <<1, 1>> >>, << <<5>> >>, <<>> }

\* what a path returned by glob may lead to
SectionFiles ==
    {TableFile(t) : t \in SectionTables} \cup {Unreadable, NotNumeric, Missing}

\* props.Mass()
Volumes == {-1, 0, 1}

(***************************** kernel objects *******************************)
NoPoints == [ok |-> FALSE, err |-> None]

NewLoft == [created |-> FALSE, wires |-> <<>>, builds |-> 0, done |-> FALSE]

NoShape == [kind |-> "none", profiles |-> <<>>]

\* loft.Shape(): the solid through the profiles, in the order they were added
LoftShape(l) == [kind |-> "solid", profiles |-> l.wires]

NoAnalysis == [ran |-> FALSE, valid |-> TRUE, vol |-> 0]

\* a file that was at the output path before the run
OldFile == [kind |-> "old", shapes |-> <<>>]

\* the file of a completed writer.Write: the shapes transferred into the writer
StepFile(shps) == [kind |-> "step", shapes |-> shps]

\* what a writer.Write that failed after opening the path left there
PartialFile == [kind |-> "partial", shapes |-> <<>>]

NoFiles == [p \in {} |-> OldFile]

\* the path built by concatenation, without os.path.join
OutStep_Concat(d, label) ==
    d \o <<"b", "l", "a", "d", "e", "_">> \o label \o <<".", "s", "t", "e", "p">>

\* line 121
OutStep(d, label) ==
    join(d, <<"b", "l", "a", "d", "e", "_">> \o label \o <<".", "s", "t", "e", "p">>)

(***************************** build_blade_solid_from_case ******************)
FoundLines(secs) ==
    <<[msg |-> "Found", arg |-> <<Len(secs)>>]>>
        \o [i \in 1..Len(secs) |-> [msg |-> "sec", arg |-> basename(secs[i])]]

\* the check of line 65 left out
Discovery_NoEmptyCheck(g) ==
    LET srt == sorted(NumericOnly(g))
    IN  IF ~srt.ok THEN [err |-> ValueError, secs |-> NumericOnly(g)]
        ELSE [err |-> None, secs |-> srt.val]

\* lines 59-66 on the result of glob
Discovery(g) ==
    LET srt == sorted(NumericOnly(g))
    IN  IF ~srt.ok THEN [err |-> ValueError, secs |-> NumericOnly(g)]
        ELSE IF srt.val = <<>> THEN [err |-> "FileNotFoundError", secs |-> <<>>]
        ELSE [err |-> None, secs |-> srt.val]

\* lines 55-70
Discover ==
    /\ pc = "discover"
    /\ \E g \in glob(join(case_dir, SecPattern), dir) :
         LET d == Discovery(g)
         IN  /\ all_secs' = g
             /\ sec_paths' = d.secs
             /\ err' = d.err
             /\ pc' = IF d.err = None THEN "loft" ELSE "error"
             /\ console' = IF d.err = None THEN console \o FoundLines(d.secs) ELSE console
    /\ UNCHANGED <<case_dir, case_label, dir, files, sec_file, cur, loft, analysis,
                   shape, exports, writer, loadVars, wireVars>>

\* lines 73-74
CreateLoft ==
    /\ pc = "loft"
    /\ loft' = [loft EXCEPT !.created = TRUE]
    /\ pc' = "load"
    /\ UNCHANGED <<case_dir, case_label, dir, files, sec_file, err, all_secs, sec_paths,
                   cur, analysis, shape, console, exports, writer, loadVars, wireVars>>

\* the section of the current iteration of the loop of line 76
Current == sec_paths[Len(loft.wires) + 1]

\* line 77; f is what the path of the section holds
LoadSection ==
    /\ pc = "load"
    /\ \E f \in SectionFiles :
         LET r == LoadFile(f)
         IN  /\ sec_file' = f
             /\ IF r.ok
                THEN /\ cur' = r
                     /\ pc' = "wire"
                     /\ err' = err
                ELSE /\ cur' = cur
                     /\ pc' = "error"
                     /\ err' = r.err
    /\ UNCHANGED <<case_dir, case_label, dir, files, all_secs, sec_paths,
                   loft, analysis, shape, console, exports, writer, loadVars, wireVars>>

\* the wire put before the profiles already added
AddWireFirst(l, w) == [l EXCEPT !.wires = <<w>> \o @]

\* line 79
AddWire(l, w) == [l EXCEPT !.wires = Append(@, w)]

\* lines 78-79; fit is whether the kernel built curve, edge and wire.  The
\* iteration ends with the wire added; x, y, z keep their values.
BuildWire ==
    /\ pc = "wire"
    /\ \E fit \in BOOLEAN :
         LET c == ClosedPoints(cur.x, cur.y, cur.z, Tol)
         IN  IF c.ok /\ fit
             THEN /\ loft' = AddWire(loft, [sec |-> Current, x |-> c.x, y |-> c.y, z |-> c.z])
                  /\ pc' = IF Len(loft.wires) + 1 < Len(sec_paths) THEN "load" ELSE "build"
                  /\ err' = err
                  /\ sec_file' = NoFile
             ELSE /\ loft' = loft
                  /\ pc' = "error"
                  /\ err' = IF c.ok THEN "KernelError" ELSE c.err
                  /\ sec_file' = sec_file
    /\ UNCHANGED <<case_dir, case_label, dir, files, all_secs, sec_paths,
                   cur, analysis, shape, console, exports, writer, loadVars, wireVars>>

\* lines 81-83; done is loft.IsDone()
BuildLoft ==
    /\ pc = "build"
    /\ \E done \in BOOLEAN :
         /\ loft' = [loft EXCEPT !.builds = @ + 1, !.done = done]
         /\ pc' = IF done THEN "validate" ELSE "error"
         /\ err' = IF done THEN err ELSE "LoftFailed"
    /\ UNCHANGED <<case_dir, case_label, dir, files, sec_file, all_secs, sec_paths,
                   cur, analysis, shape, console, exports, writer, loadVars, wireVars>>

\* a validator that returns no shape when it warns
Validated_RejectsWarned(shp, valid, vol) ==
    [ret |-> IF valid /\ vol > 0 THEN shp ELSE NoShape,
     lines |-> (IF valid THEN <<>> ELSE <<[msg |-> "WARNING_INVALID", arg |-> <<>>]>>)
               \o <<[msg |-> "volume", arg |-> <<vol>>]>>
               \o (IF vol <= 0 THEN <<[msg |-> "WARNING_VOLUME", arg |-> <<>>]>> ELSE <<>>)]

\* lines 88-101 for a shape shp with IsValid() = valid and Mass() = vol
Validated(shp, valid, vol) ==
    [ret |-> shp,
     lines |-> (IF valid THEN <<>> ELSE <<[msg |-> "WARNING_INVALID", arg |-> <<>>]>>)
               \o <<[msg |-> "volume", arg |-> <<vol>>]>>
               \o (IF vol <= 0 THEN <<[msg |-> "WARNING_VOLUME", arg |-> <<>>]>> ELSE <<>>)]

\* lines 85-101, and the return to line 120
Validate ==
    /\ pc = "validate"
    /\ \E valid \in BOOLEAN, vol \in Volumes :
         LET v == Validated(LoftShape(loft), valid, vol)
         IN  /\ analysis' = [ran |-> TRUE, valid |-> valid, vol |-> vol]
             /\ console' = console \o v.lines
             /\ shape' = v.ret
             /\ pc' = "transfer"
    /\ UNCHANGED <<case_dir, case_label, dir, files, sec_file, err, all_secs, sec_paths,
                   cur, loft, exports, writer, loadVars, wireVars>>

(***************************** export_step **********************************)
\* line 106: every call makes a writer of its own, whatever an earlier one held
NewWriter(w) == <<>>

\* lines 106-109; ok is whether writer.Transfer returned IFSelect_RetDone
Transfer ==
    /\ pc = "transfer"
    /\ exports' = exports + 1
    /\ \E ok \in BOOLEAN :
         /\ writer' = IF ok THEN Append(NewWriter(writer), shape) ELSE NewWriter(writer)
         /\ pc' = IF ok THEN "write" ELSE "error"
         /\ err' = IF ok THEN err ELSE "TransferFailed"
    /\ UNCHANGED <<case_dir, case_label, dir, files, sec_file, all_secs, sec_paths,
                   cur, loft, analysis, shape, console, loadVars, wireVars>>

\* the file system after writer.Write(out_path) returned status st: the file
\* of a completed Write, or what a failed Write left (nothing when it failed
\* before it opened the path).  Lines 110-112 remove nothing.
Written(fs, out_path, w, st) ==
    IF st = "done" THEN (out_path :> StepFile(w)) @@ fs
    ELSE IF st = "partial" THEN (out_path :> PartialFile) @@ fs
    ELSE fs

\* lines 110-113; st is "done" when writer.Write returned IFSelect_RetDone,
\* else whether the writer had opened the path before it failed
Write ==
    /\ pc = "write"
    /\ \E st \in {"done", "unopened", "partial"} :
         /\ files' = Written(files, OutStep(case_dir, case_label), writer, st)
         /\ pc' = IF st = "done" THEN "done" ELSE "error"
         /\ err' = IF st = "done" THEN err ELSE "WriteFailed"
         /\ console' = IF st = "done"
                       THEN Append(console, [msg |-> "Exported",
                                             arg |-> OutStep(case_dir, case_label)])
                       ELSE console
    /\ UNCHANGED <<case_dir, case_label, dir, all_secs, sec_paths, sec_file, cur, loft,
                   analysis, shape, exports, writer, loadVars, wireVars>>

(***************************** specifications *******************************)
IdleLoad == table = <<>> /\ lres = NoPoints

IdleWire == wx = <<>> /\ wy = <<>> /\ wz = <<>> /\ wres = NoPoints

\* lines 116-120: the run starts in a case directory; the output path may
\* already hold a file
Init ==
    /\ case_dir \in CaseDirs
    /\ case_label \in CaseLabels
    /\ dir \in Directories
    /\ files \in {NoFiles, OutStep(case_dir, case_label) :> OldFile}
    /\ pc = "discover"
    /\ err = None
    /\ all_secs = <<>>
    /\ sec_paths = <<>>
    /\ sec_file = NoFile
    /\ cur = NoPoints
    /\ loft = NewLoft
    /\ analysis = NoAnalysis
    /\ shape = NoShape
    /\ console = <<>>
    /\ exports = 0
    /\ writer = <<>>
    /\ IdleLoad
    /\ IdleWire

Next ==
    \/ Discover
    \/ CreateLoft
    \/ LoadSection
    \/ BuildWire
    \/ BuildLoft
    \/ Validate
    \/ Transfer
    \/ Write

\* one run of the script
Spec == Init /\ [][Next]_vars

IdlePipe ==
    /\ case_dir = <<>> /\ case_label = <<>> /\ dir = {} /\ files = NoFiles
    /\ pc = "idle" /\ err = None /\ all_secs = <<>> /\ sec_paths = <<>>
    /\ sec_file = NoFile /\ cur = NoPoints /\ loft = NewLoft /\ analysis = NoAnalysis /\ shape = NoShape
    /\ console = <<>> /\ exports = 0 /\ writer = <<>>

Tables ==
    UNION {[1..r -> [1..c -> Coords]] : r \in 0..MaxRows, c \in 1..MaxCols}

InitLoad == IdlePipe /\ IdleWire /\ table \in Tables /\ lres = NoPoints

\* load_section_points called on a file holding the table
Load ==
    /\ lres = NoPoints
    /\ lres' = load_section_points(table)
    /\ UNCHANGED <<table, pipeVars, wireVars>>

SpecLoad == InitLoad /\ [][Load]_vars

InitWire ==
    /\ IdlePipe /\ IdleLoad
    /\ \E n \in 0..MaxPts :
         /\ wx \in [1..n -> Coords]
         /\ wy \in [1..n -> Coords]
         /\ wz \in [1..n -> Coords]
    /\ wres = NoPoints

\* bspline_wire_from_xyz called with the default tolerance
Wire ==
    /\ wres = NoPoints
    /\ wres' = ClosedPoints(wx, wy, wz, Tol)
    /\ UNCHANGED <<wx, wy, wz, pipeVars, loadVars>>

SpecWire == InitWire /\ [][Wire]_vars

(***************************** properties ***********************************)
\* the sections of the case directory: the files that match sec*.dat and whose
\* name holds a digit
Sections == {n \in dir : fnmatch(n, SecPattern) /\ \E i \in 1..Len(n) : isdigit(n[i])}

Index(p) == SortKey(p).val

\* discovery returned without an error
Discovered == pc = "loft" \/ loft.created

\* the sections whose index is defined: the digits of the name are decimal
ValidSections == {n \in Sections : SortKey(n).ok}

\* C1 as stated: in a case directory of N >= 1 valid sections the run discovers
\* exactly the N sections, the index of each is strictly smaller than the index
\* of the next, and the loop processes them in that order.
C1_StrictlyAscending ==
    (pc # "discover" /\ ValidSections # {}) =>
        /\ Discovered
        /\ Len(sec_paths) = Cardinality(ValidSections)
        /\ {basename(sec_paths[i]) : i \in 1..Len(sec_paths)} = ValidSections
        /\ \A i \in 1..(Len(sec_paths) - 1) : Index(sec_paths[i]) < Index(sec_paths[i + 1])
        /\ \A k \in 1..Len(loft.wires) : loft.wires[k].sec = sec_paths[k]

NoOutput == \A p \in DOMAIN files : files[p] = OldFile

\* C2: with no section in the directory the run ends in the not-found error,
\* and that error is raised before a section is loaded, the loft is created, a
\* wire is built or a STEP file is written; with a section in the directory a
\* not-found error comes only from loading a path that leads to no file.
C2_NotFoundBeforeGeometry ==
    /\ (pc # "discover" /\ Sections = {}) =>
          /\ pc = "error" /\ err = "FileNotFoundError"
          /\ sec_file = NoFile /\ cur = NoPoints
          /\ ~loft.created /\ loft.wires = <<>> /\ loft.builds = 0
          /\ shape = NoShape /\ ~analysis.ran
          /\ exports = 0 /\ writer = <<>> /\ NoOutput
    /\ (err = "FileNotFoundError" /\ Sections # {}) =>
          (loft.created /\ sec_file = Missing)

\* the not-found error in a directory that holds files, none of them a section
C2_Witness ==
    pc = "error" /\ err = "FileNotFoundError" /\ dir # {} /\ Sections = {}

Cols(tbl) == IF Len(tbl) = 0 THEN 0 ELSE Len(tbl[1])

\* C3 as stated: a table of fewer than 3 columns raises an error (the
\* IndexError of a one-value file counted as one), and a table of at least 3
\* columns yields its first three columns.
C3_ColumnsChecked ==
    (lres.ok \/ lres.err # None) =>
        IF Cols(table) < 3
        THEN ~lres.ok
        ELSE /\ lres.ok
             /\ lres.x = Column(table, 1)
             /\ lres.y = Column(table, 2)
             /\ lres.z = Column(table, 3)

Gap2(x, y, z) ==
    (x[Len(x)] - x[1]) * (x[Len(x)] - x[1])
        + (y[Len(y)] - y[1]) * (y[Len(y)] - y[1])
        + (z[Len(z)] - z[1]) * (z[Len(z)] - z[1])

\* C4: for a non-empty point sequence, a gap above tol appends exactly the first
\* point, a gap within tol leaves the sequence as it is; either way the fitted
\* sequence ends within tol of its start and keeps the points 1..n.
C4_LoopClosed ==
    (Len(wx) > 0 /\ (wres.ok \/ wres.err # None)) =>
        LET n == Len(wx) IN
        /\ wres.ok
        /\ IF Gap2(wx, wy, wz) > Tol * Tol
           THEN /\ Len(wres.x) = n + 1 /\ Len(wres.y) = n + 1 /\ Len(wres.z) = n + 1
                /\ wres.x[n + 1] = wx[1] /\ wres.y[n + 1] = wy[1] /\ wres.z[n + 1] = wz[1]
           ELSE wres.x = wx /\ wres.y = wy /\ wres.z = wz
        /\ Gap2(wres.x, wres.y, wres.z) <= Tol * Tol
        /\ \A i \in 1..n : wres.x[i] = wx[i] /\ wres.y[i] = wy[i] /\ wres.z[i] = wz[i]

\* an open loop that was closed
C4_Witness == wres.ok /\ Len(wres.x) = Len(wx) + 1 /\ Len(wx) >= 2

BeforeLoftBuild ==
    /\ loft.builds = 0 /\ ~loft.done /\ ~analysis.ran /\ shape = NoShape
    /\ exports = 0 /\ writer = <<>>

\* every stage runs at most once, export_step only after all sections were
\* loaded, all wires built and the loft done, and a failure ends the run with
\* no later stage executed
StagesInOrder ==
    /\ loft.builds <= 1 /\ exports <= 1
    /\ (pc = "error") <=> (err # None)
    /\ loft.builds > 0 => Len(loft.wires) = Len(sec_paths)
    /\ exports > 0 =>
          /\ Len(loft.wires) = Len(sec_paths)
          /\ loft.builds = 1 /\ loft.done /\ analysis.ran /\ shape = LoftShape(loft)
    /\ pc = "error" =>
          /\ ~ENABLED Next
          /\ err = "FileNotFoundError" =>
                (BeforeLoftBuild /\ (loft.created <=> sec_file = Missing))
          /\ err \in {ValueError, IndexError, OSError, "KernelError"} =>
                (BeforeLoftBuild /\ Len(loft.wires) < Len(sec_paths) + 1)
          /\ err = "LoftFailed" =>
                (loft.builds = 1 /\ ~loft.done /\ ~analysis.ran /\ shape = NoShape
                    /\ exports = 0 /\ writer = <<>>)
          /\ err = "TransferFailed" => (exports = 1 /\ writer = <<>>)
          /\ err \in {"FileNotFoundError", ValueError, IndexError, OSError, "KernelError",
                      "LoftFailed", "TransferFailed", "WriteFailed"}

\* a section file that holds no table of at least three columns
Malformed(f) == f.kind # "table" \/ Cols(f.rows) < 3

\* C5 as stated: the run is fail-fast: every stage runs at most once and in
\* order, a failure ends the run with no later stage executed, a malformed
\* section file ends the run where it is loaded, and a run that ended in an
\* error has kept no STEP output.
C5_FailFast ==
    /\ StagesInOrder
    /\ (sec_file # NoFile /\ Malformed(sec_file)) =>
          (pc = "error" /\ err \in {ValueError, IndexError, OSError, "FileNotFoundError"})
    /\ pc = "error" => NoOutput

HasLine(m) == \E i \in 1..Len(console) : console[i].msg = m

\* C6: once the loft is done the run goes on to export_step with the lofted
\* shape, whatever the validity and the volume; they decide the warnings
\* printed and nothing else.
C6_WarningsDoNotStop ==
    /\ loft.done =>
          \/ pc \in {"validate", "transfer", "write", "done"}
          \/ pc = "error" /\ err \in {"TransferFailed", "WriteFailed"}
    /\ analysis.ran =>
          /\ shape = LoftShape(loft)
          /\ pc # "validate"
          /\ HasLine("WARNING_INVALID") <=> ~analysis.valid
          /\ HasLine("WARNING_VOLUME") <=> (analysis.vol <= 0)
    /\ pc \in {"write", "done"} => writer = <<LoftShape(loft)>>

\* an export completed for a shape reported invalid and of negative volume
C6_Witness == pc = "done" /\ ~analysis.valid /\ analysis.vol < 0

RECURSIVE Parts(_)
\* the names a path goes through, separators dropped
Parts(p) ==
    IF p = <<>> THEN <<>>
    ELSE IF IsSep(p[Len(p)]) THEN Parts(SubSeq(p, 1, Len(p) - 1))
    ELSE Append(Parts(SubSeq(p, 1, LastSep(p))), SubSeq(p, LastSep(p) + 1, Len(p)))

\* what a path names: the drive, whether it starts at the root of the drive (a
\* share has nothing but a root), and the names from there
Location(p) ==
    LET s == splitdrive(p)
    IN  [drive |-> normcase(s.drive),
         rooted |-> \/ s.path # <<>> /\ IsSep(s.path[1])
                    \/ s.drive # <<>> /\ IsSep(s.drive[1]),
         parts |-> Parts(s.path)]

BladeName == <<"b", "l", "a", "d", "e", "_">> \o case_label \o <<".", "s", "t", "e", "p">>

\* p names <case_dir>/blade_<case_label>.step, the file of that name in the
\* case directory
IsBladePath(p) ==
    Location(p) = [Location(case_dir) EXCEPT !.parts = Append(@, BladeName)]

\* C7: a run that ends without error has written one file, the complete STEP
\* file of the shape at <case_dir>/blade_<case_label>.step, and no other.
C7_OneStepFile ==
    pc = "done" =>
        \E p \in DOMAIN files :
            /\ DOMAIN files = {p}
            /\ IsBladePath(p)
            /\ files[p].kind = "step"
            /\ files[p].shapes = <<shape>>
            /\ shape.kind = "solid" /\ Len(shape.profiles) >= 1

\* a successful run whose case directory is the current directory of a drive
\* and whose last section was a loop already closed
C7_Witness ==
    /\ pc = "done" /\ exports = 1 /\ case_dir = <<"C", ":">>
    /\ cur.x = Column(ClosedLoop, 1)

\* C9: the wires in the loft are those of the first sections in sorted order,
\* one each; the loft is built once, after the wire of the last section; a loft
\* not done raises the build error and returns no shape.
C9_OneWirePerSection ==
    /\ Len(loft.wires) <= Len(sec_paths)
    /\ \A k \in 1..Len(loft.wires) : loft.wires[k].sec = sec_paths[k]
    /\ \A k \in 1..(Len(loft.wires) - 1) :
          Index(loft.wires[k].sec) <= Index(loft.wires[k + 1].sec)
    /\ loft.builds <= 1
    /\ loft.builds = 1 => Len(loft.wires) = Len(sec_paths)
    /\ (loft.builds = 1 /\ ~loft.done) => (pc = "error" /\ err = "LoftFailed")
    /\ ~loft.done => shape = NoShape

\* a loft built from three wires whose sections glob returned in another
\* order, the last of a loop already closed and handed to the fit as loaded
C9_Witness ==
    /\ loft.builds = 1 /\ loft.done /\ Len(loft.wires) = 3
    /\ sec_paths # all_secs
    /\ cur.x = Column(ClosedLoop, 1) /\ loft.wires[3].x = cur.x

\* C10 as stated: a discovery that fails, fails with the not-found error.
C10_OnlyNotFound == (pc = "error" /\ ~loft.created) => err = "FileNotFoundError"

====
